---- MODULE Spec2Model ----
(***************************************************************************)
(* Model of xml_to_yml_promt_template.py: the tag repairer                 *)
(* (fix_broken_tags), the recovering parse and fold (xml_to_dict,          *)
(* element_to_dict), the cleaning pass (clean_dict) and the orchestration  *)
(* (process_xml_to_yaml).                                                  *)
(*                                                                         *)
(* A Python str is a sequence of one-character strings.  The three         *)
(* non-ASCII characters of the source are written as named atoms:          *)
(*   RSAQUO  U+203A  (the "wrong" closing angle bracket)                   *)
(*   LSAQUO  U+2039  (the "wrong" opening angle bracket)                   *)
(*   BULLET  U+2022                                                        *)
(***************************************************************************)
EXTENDS Integers, Sequences, FiniteSets, TLC

VARIABLES pc, xml_content, output_file, stage, fixed_xml, is_valid,
          element, xml_dict, yaml_output, file, ret

vars == <<pc, xml_content, output_file, stage, fixed_xml, is_valid,
          element, xml_dict, yaml_output, file, ret>>

\* ------------------------------------------------------------------------
\* Characters and string primitives
\* ------------------------------------------------------------------------

RSAQUO == "RSAQUO"
LSAQUO == "LSAQUO"
BULLET == "BULLET"

\* [a-zA-Z0-9_] of the regular expressions (and \w on this alphabet)
WordChars ==
    {"a", "b", "c", "d", "e", "f", "g", "h", "i", "j", "k", "l", "m", "n",
     "o", "p", "q", "r", "s", "t", "u", "v", "w", "x", "y", "z",
     "A", "B", "C", "D", "E", "F", "G", "H", "I", "J", "K", "L", "M", "N",
     "O", "P", "Q", "R", "S", "T", "U", "V", "W", "X", "Y", "Z",
     "0", "1", "2", "3", "4", "5", "6", "7", "8", "9", "_"}

\* what str.strip() and \s remove
Whitespace == {" ", "\n", "\t"}

\* does the literal pat occur in s at position i
MatchesAt(s, pat, i) ==
    /\ i + Len(pat) - 1 <= Len(s)
    /\ \A k \in 1..Len(pat) : s[i + k - 1] = pat[k]

\* str.startswith
StartsWith(s, pat) == MatchesAt(s, pat, 1)

\* least index >= i where the literal pat occurs in s, 0 when there is none
NextOccurrence(s, pat, i) ==
    IF \E j \in i..Len(s) : MatchesAt(s, pat, j)
    THEN CHOOSE j \in i..Len(s) :
             MatchesAt(s, pat, j) /\ \A k \in i..(j - 1) : ~MatchesAt(s, pat, k)
    ELSE 0

RECURSIVE ReplaceFrom(_, _, _, _)
ReplaceFrom(s, pat, rep, i) ==
    LET j == NextOccurrence(s, pat, i)
    IN  IF j = 0 THEN SubSeq(s, i, Len(s))
        ELSE SubSeq(s, i, j - 1) \o rep \o ReplaceFrom(s, pat, rep, j + Len(pat))

\* str.replace(pat, rep), and re.sub of a pattern that is a literal:
\* leftmost non-overlapping occurrences, left to right
ReplaceAll(s, pat, rep) == ReplaceFrom(s, pat, rep, 1)

\* number of occurrences of the character c in s
Count(s, c) == Cardinality({i \in 1..Len(s) : s[i] = c})

\* least index >= i holding the character c, 0 when there is none
FirstIndexOf(s, c, i) ==
    IF \E j \in i..Len(s) : s[j] = c
    THEN CHOOSE j \in i..Len(s) : s[j] = c /\ \A k \in i..(j - 1) : s[k] # c
    ELSE 0

\* index just past the longest run of word characters starting at i
WordRunEnd(s, i) ==
    IF \E j \in i..Len(s) : s[j] \notin WordChars
    THEN CHOOSE j \in i..Len(s) :
             s[j] \notin WordChars /\ \A k \in i..(j - 1) : s[k] \in WordChars
    ELSE IF i > Len(s) THEN i ELSE Len(s) + 1

LStrip(s) ==
    IF \E j \in 1..Len(s) : s[j] \notin Whitespace
    THEN SubSeq(s, CHOOSE j \in 1..Len(s) :
                      s[j] \notin Whitespace
                      /\ \A k \in 1..(j - 1) : s[k] \in Whitespace,
                Len(s))
    ELSE <<>>

RStrip(s) ==
    IF \E j \in 1..Len(s) : s[j] \notin Whitespace
    THEN SubSeq(s, 1, CHOOSE j \in 1..Len(s) :
                         s[j] \notin Whitespace
                         /\ \A k \in (j + 1)..Len(s) : s[k] \in Whitespace)
    ELSE <<>>

\* str.strip()
Strip(s) == RStrip(LStrip(s))

\* ------------------------------------------------------------------------
\* fix_broken_tags
\* ------------------------------------------------------------------------

\* a replace that stops after the first occurrence: replace(RSAQUO, ">", 1)
ReplaceGlyphFirstOnly(s) ==
    LET j == NextOccurrence(s, <<RSAQUO>>, 1)
    IN  IF j = 0 THEN s
        ELSE SubSeq(s, 1, j - 1) \o <<">">> \o SubSeq(s, j + 1, Len(s))

\* line 16: xml_content.replace(RSAQUO, ">")
ReplaceGlyph(s) == ReplaceAll(s, <<RSAQUO>>, <<">">>)

\* One attempt of the pattern of line 19 at position i:
\*   <([a-zA-Z0-9_]+)([^>]*)>([^<]*)<\/([a-zA-Z0-9_]+)([^>]*)>
\* Group 1 is the longest word run (group 2 takes any character but ">", so
\* a shorter group 1 is never needed); group 2 ends at the first ">", group
\* 3 at the first "<" after it, which must start "</" and a word run; group
\* 5 ends at the next ">".  e1, gt, lt, e4, end are those positions.
ChildlessMatch(s, i) ==
    LET e1 == WordRunEnd(s, i + 1)
        gt == IF e1 > i + 1 THEN FirstIndexOf(s, ">", e1) ELSE 0
        lt == IF gt > 0 THEN FirstIndexOf(s, "<", gt + 1) ELSE 0
        sl == lt > 0 /\ lt + 1 <= Len(s) /\ s[lt + 1] = "/"
        e4 == IF sl THEN WordRunEnd(s, lt + 2) ELSE 0
        end == IF sl /\ e4 > lt + 2 THEN FirstIndexOf(s, ">", e4) ELSE 0
    IN  IF i <= Len(s) /\ s[i] = "<" /\ end > 0
        THEN [ok |-> TRUE,
              g1 |-> SubSeq(s, i + 1, e1 - 1),
              g2 |-> SubSeq(s, e1, gt - 1),
              g3 |-> SubSeq(s, gt + 1, lt - 1),
              g4 |-> SubSeq(s, lt + 2, e4 - 1),
              g5 |-> SubSeq(s, e4, end - 1),
              end |-> end]
        ELSE [ok |-> FALSE, g1 |-> <<>>, g2 |-> <<>>, g3 |-> <<>>,
              g4 |-> <<>>, g5 |-> <<>>, end |-> 0]

\* a replacement that closes with the closing tag's own name (group 4)
ChildlessReplacementKeepsClosingName(m) ==
    <<"<">> \o m.g1 \o m.g2 \o <<">">> \o m.g3 \o <<"<", "/">> \o m.g4 \o <<">">>

\* the replacement of line 20: f"<{g1}{g2}>{g3}</{g1}>"
ChildlessReplacement(m) ==
    <<"<">> \o m.g1 \o m.g2 \o <<">">> \o m.g3 \o <<"<", "/">> \o m.g1 \o <<">">>

\* least index >= i where the pattern of line 19 matches, 0 when none does
NextChildless(s, i) ==
    IF \E j \in i..Len(s) : ChildlessMatch(s, j).ok
    THEN CHOOSE j \in i..Len(s) :
             ChildlessMatch(s, j).ok
             /\ \A k \in i..(j - 1) : ~ChildlessMatch(s, k).ok
    ELSE 0

RECURSIVE ChildlessFrom(_, _)
ChildlessFrom(s, i) ==
    LET j == NextChildless(s, i)
    IN  IF j = 0 THEN SubSeq(s, i, Len(s))
        ELSE LET m == ChildlessMatch(s, j)
             IN  SubSeq(s, i, j - 1) \o ChildlessReplacement(m)
                   \o ChildlessFrom(s, m.end + 1)

\* lines 19-21: re.sub of the childless-element pattern
FixCommonTagErrors(s) == ChildlessFrom(s, 1)

\* tag names of the correction table
li == <<"l", "i">>
ul == <<"u", "l">>
Example == <<"E", "x", "a", "m", "p", "l", "e">>
Example1 == Example \o <<"1">>
Example2 == Example \o <<"2">>
transcript == <<"t", "r", "a", "n", "s", "c", "r", "i", "p", "t">>
output == <<"o", "u", "t", "p", "u", "t">>
system == <<"s", "y", "s", "t", "e", "m">>
instruction == <<"i", "n", "s", "t", "r", "u", "c", "t", "i", "o", "n">>
Task == <<"T", "a", "s", "k">>
Instruction == <<"I", "n", "s", "t", "r", "u", "c", "t", "i", "o", "n">>
intent == <<"i", "n", "t", "e", "n", "t">>
taxonomy == <<"t", "a", "x", "o", "n", "o", "m", "y">>
list == <<"l", "i", "s", "t">>

Sp == <<" ">>
Us == <<"_">>

\* "<name>", "</name>" and their spellings with the wrong opening glyph
Open(n) == <<"<">> \o n \o <<">">>
Close(n) == <<"<", "/">> \o n \o <<">">>
BadOpen(n) == <<LSAQUO>> \o n \o <<">">>
BadClose(n) == <<LSAQUO, "/">> \o n \o <<">">>

\* lines 24-65: the (pattern, replacement) pairs in source order; every
\* pattern is a literal once its regex escapes are read
CorrectionTable ==
    << <<Close(Sp \o Example), Close(Example)>>,                      \* 24
       <<BadOpen(li), Open(li)>>,                                      \* 27
       <<<<LSAQUO>> \o li \o <<RSAQUO>>, Open(li)>>,                   \* 28
       <<<<"\\">> \o li \o <<">">>, Close(li)>>,                       \* 29
       <<BadClose(li), Close(li)>>,                                    \* 30
       <<BadOpen(ul), Open(ul)>>,                                      \* 33
       <<BadClose(ul), Close(ul)>>,                                    \* 34
       <<BadOpen(Example), Open(Example)>>,                            \* 37
       <<BadClose(Example), Close(Example)>>,                          \* 38
       <<Close(Sp \o Example), Close(Example)>>,                      \* 39
       <<BadOpen(Example1), Open(Example1)>>,                          \* 42
       <<BadClose(Example1), Close(Example1)>>,                        \* 43
       <<BadOpen(Example2), Open(Example2)>>,                          \* 44
       <<BadClose(Example2), Close(Example2)>>,                        \* 45
       <<BadOpen(transcript), Open(transcript)>>,                      \* 48
       <<BadOpen(output), Open(output)>>,                              \* 49
       <<Open(system \o Sp \o instruction),
         Open(system \o Us \o instruction)>>,                          \* 52
       <<<<"<", "/">> \o system \o Sp \o instruction \o <<RSAQUO>>,
         Close(system \o Us \o instruction)>>,                         \* 53
       <<Open(Task \o Sp \o Instruction),
         Open(Task \o Us \o Instruction)>>,                            \* 56
       <<Close(Task \o Sp \o Instruction),
         Close(Task \o Us \o Instruction)>>,                           \* 57
       <<BadOpen(intent \o Sp \o taxonomy \o Sp \o Instruction),
         Open(intent \o Us \o taxonomy \o Us \o Instruction)>>,        \* 60
       <<Close(intent \o Sp \o taxonomy \o Sp \o Instruction),
         Close(intent \o Us \o taxonomy \o Us \o Instruction)>>,       \* 61
       <<Open(intent \o Sp \o taxonomy \o Sp \o list),
         Open(intent \o Us \o taxonomy \o Us \o list)>>,               \* 64
       <<Close(intent \o Sp \o taxonomy \o Sp \o list),
         Close(intent \o Us \o taxonomy \o Us \o list)>> >>            \* 65

RECURSIVE ApplyRows(_, _)
ApplyRows(s, i) ==
    IF i > Len(CorrectionTable) THEN s
    ELSE CHOOSE r \in {ApplyRows(v, i + 1) :
                         v \in {ReplaceAll(s, CorrectionTable[i][1],
                                           CorrectionTable[i][2])}} : TRUE

\* lines 24-65 applied one after the other
ApplyTable(s) == ApplyRows(s, 1)

\* line 68: xml_content.replace("\\", "")
StripBackslashes(s) == ReplaceAll(s, <<"\\">>, <<>>)

\* line 71: xml_content.replace(BULLET "..", "")
RemoveFiller(s) == ReplaceAll(s, <<BULLET, ".", ".">>, <<>>)

\* lines 7-73; each set binds one intermediate value of xml_content
fix_broken_tags(s) ==
    CHOOSE r \in
        {RemoveFiller(e) : e \in
            {StripBackslashes(d) : d \in
                {ApplyTable(c) : c \in
                    {FixCommonTagErrors(b) : b \in {ReplaceGlyph(s)}}}}} : TRUE

\* ------------------------------------------------------------------------
\* Inputs of the repairer
\* ------------------------------------------------------------------------

\* longest input built from free pieces
MaxPieces == 3

\* concatenation of a sequence of strings
RECURSIVE Flatten(_)
Flatten(q) == IF q = <<>> THEN <<>> ELSE Head(q) \o Flatten(Tail(q))

\* all concatenations of at most n strings of the set P
Concatenations(P, n) ==
    {Flatten(q) : q \in UNION {[1..k -> P] : k \in 0..n}}

RepairPieces ==
    {<<"<", "a", ">">>, <<"<", "/", "b", " ", "k", ">">>, <<"x">>,
     <<RSAQUO>>, <<">">>, <<"\\">>, <<LSAQUO>> \o li, li \o <<">">>,
     <<BULLET, ".", ".">>}

\* parts of one childless element <tag attrs>text</ctag cattrs>
ElemTags == {<<"a">>, <<"b", "_", "1">>}
ElemAttrs == {<<>>, <<" ", "k", "=", "v">>}
ElemTexts == {<<>>, <<"x">>, <<"x", ">", "y">>}
ElemAround == {<<>>, <<"y">>}

Elem(pre, tag, attrs, text, ctag, cattrs, post) ==
    pre \o <<"<">> \o tag \o attrs \o <<">">> \o text
        \o <<"<", "/">> \o ctag \o cattrs \o <<">">> \o post

ElemInputs ==
    {Elem(pre, tag, attrs, text, ctag, cattrs, post) :
        pre \in ElemAround, tag \in ElemTags, attrs \in ElemAttrs,
        text \in ElemTexts, ctag \in ElemTags, cattrs \in ElemAttrs,
        post \in ElemAround}

\* the malformed spellings of the correction table
Malformed == {CorrectionTable[i][1] : i \in 1..Len(CorrectionTable)}

\* inputs built from the malformed spellings: one spelling, or one followed
\* by text and a second one
TableInputs ==
    {pre \o m1 \o mid \o m2 :
        pre \in ElemAround, m1 \in Malformed, mid \in {<<>>, <<"x">>},
        m2 \in Malformed \cup {<<>>}}

RepairInputs ==
    Concatenations(RepairPieces, MaxPieces) \cup ElemInputs \cup TableInputs

\* ------------------------------------------------------------------------
\* Values of variables that hold no string yet
\* ------------------------------------------------------------------------

\* Python's None
None == [kind |-> "None"]

\* a local variable that has not been assigned yet
Unset == [kind |-> "unset"]

\* ------------------------------------------------------------------------
\* SpecRepair: fix_broken_tags statement by statement, then a second call
\* on its own result.  stage[k] is xml_content after the k-th statement
\* group; stage[6] is fix_broken_tags(stage[5]).
\* ------------------------------------------------------------------------

RepairInit ==
    /\ pc = "line16"
    /\ xml_content \in RepairInputs
    /\ stage = <<>>
    /\ output_file = None /\ fixed_xml = Unset /\ is_valid = Unset
    /\ element = Unset /\ xml_dict = Unset /\ yaml_output = Unset
    /\ file = Unset /\ ret = Unset

RepairFrame ==
    UNCHANGED <<xml_content, output_file, fixed_xml, is_valid, element,
                xml_dict, yaml_output, file, ret>>

StepReplaceGlyph ==
    /\ pc = "line16"
    /\ stage' = <<ReplaceGlyph(xml_content)>>
    /\ pc' = "line19"
    /\ RepairFrame

StepFixCommonTagErrors ==
    /\ pc = "line19"
    /\ stage' = Append(stage, FixCommonTagErrors(stage[1]))
    /\ pc' = "line24"
    /\ RepairFrame

StepApplyTable ==
    /\ pc = "line24"
    /\ stage' = Append(stage, ApplyTable(stage[2]))
    /\ pc' = "line68"
    /\ RepairFrame

StepStripBackslashes ==
    /\ pc = "line68"
    /\ stage' = Append(stage, StripBackslashes(stage[3]))
    /\ pc' = "line71"
    /\ RepairFrame

StepRemoveFiller ==
    /\ pc = "line71"
    /\ stage' = Append(stage, RemoveFiller(stage[4]))
    /\ pc' = "repaired"
    /\ RepairFrame

RepairAgain ==
    /\ pc = "repaired"
    /\ stage' = Append(stage, fix_broken_tags(stage[5]))
    /\ pc' = "again"
    /\ RepairFrame

RepairNext ==
    \/ StepReplaceGlyph
    \/ StepFixCommonTagErrors
    \/ StepApplyTable
    \/ StepStripBackslashes
    \/ StepRemoveFiller
    \/ RepairAgain

SpecRepair == RepairInit /\ [][RepairNext]_vars

\* ------------------------------------------------------------------------
\* Claims about fix_broken_tags (checked under SpecRepair)
\* ------------------------------------------------------------------------

\* C6: the output of fix_broken_tags holds no RSAQUO, and its number of ">"
\* is the input's number of ">" plus the input's number of RSAQUO.
C6_GlyphCount ==
    Len(stage) >= 5 =>
        /\ Count(stage[5], RSAQUO) = 0
        /\ Count(stage[5], ">") = Count(xml_content, ">") + Count(xml_content, RSAQUO)

\* an input with the glyph whose repair also rewrote a childless element
C6_Witness ==
    /\ Len(stage) >= 5
    /\ Count(xml_content, RSAQUO) >= 1
    /\ stage[2] # stage[1]

\* C3 as stated: the childless-element rewrite (lines 19-21) turns
\* <tag attrs>text</ctag cattrs> into <tag>text</tag>, dropping the
\* attributes of both tags.
C3_DropsAllAttrs ==
    \A pre \in ElemAround, tag \in ElemTags, attrs \in ElemAttrs,
       text \in ElemTexts, ctag \in ElemTags, cattrs \in ElemAttrs,
       post \in ElemAround :
        (Len(stage) >= 2
         /\ stage[1] = Elem(pre, tag, attrs, text, ctag, cattrs, post))
        => stage[2] = Elem(pre, tag, <<>>, text, tag, <<>>, post)

\* C3 amended: the rewrite turns <tag attrs>text</ctag cattrs> into
\* <tag attrs>text</tag>: the closing name becomes the opening name, the
\* closing tag's attributes are dropped, the opening tag's are kept.
C3_KeepsOpeningAttrs ==
    \A pre \in ElemAround, tag \in ElemTags, attrs \in ElemAttrs,
       text \in ElemTexts, ctag \in ElemTags, cattrs \in ElemAttrs,
       post \in ElemAround :
        (Len(stage) >= 2
         /\ stage[1] = Elem(pre, tag, attrs, text, ctag, cattrs, post))
        => stage[2] = Elem(pre, tag, attrs, text, tag, <<>>, post)

\* an element with attributes on both tags and a corrupted closing name,
\* after the rewrite
C3_Witness ==
    /\ Len(stage) >= 2
    /\ stage[1] = Elem(<<"y">>, <<"a">>, <<" ", "k", "=", "v">>, <<"x">>,
                       <<"b", "_", "1">>, <<" ", "k", "=", "v">>, <<>>)

\* C4 as stated: an occurrence of a malformed spelling of the correction
\* table comes out of fix_broken_tags as the table's canonical tag.
C4_TableEntryRepaired ==
    \A i \in 1..Len(CorrectionTable), pre \in ElemAround, post \in ElemAround :
        (Len(stage) >= 5
         /\ xml_content = pre \o CorrectionTable[i][1] \o post)
        => stage[5] = pre \o CorrectionTable[i][2] \o post

\* C2 as stated: on inputs built from the malformed spellings of the
\* correction table a second repair changes nothing.
C2_Idempotent ==
    (Len(stage) >= 6 /\ xml_content \in TableInputs) => stage[6] = stage[5]

\* ------------------------------------------------------------------------
\* Python values: str, dict (insertion-ordered items) and list; a raised
\* exception is represented as a value of its own
\* ------------------------------------------------------------------------

Str(s) == [kind |-> "str", s |-> s]
Dict(items) == [kind |-> "dict", items |-> items]
List(items) == [kind |-> "list", items |-> items]
Raise(exc) == [kind |-> "raise", exc |-> exc]
Bool(b) == [kind |-> "bool", v |-> b]

KeyText == <<"_", "t", "e", "x", "t">>
KeyTail == <<"_", "t", "a", "i", "l">>

\* key in result
Has(items, k) == \E i \in 1..Len(items) : items[i].key = k

\* result[key]
Get(items, k) == items[CHOOSE i \in 1..Len(items) : items[i].key = k].val

\* result[key] = v: an existing key keeps its place, a new one goes last
Set(items, k, v) ==
    IF Has(items, k)
    THEN [i \in 1..Len(items) |->
             IF items[i].key = k THEN [key |-> k, val |-> v] ELSE items[i]]
    ELSE Append(items, [key |-> k, val |-> v])

\* ------------------------------------------------------------------------
\* xml_to_dict / element_to_dict
\* An element is [tag, text, tail, children]; an absent text or tail (None)
\* is the empty string, which the code's truth tests treat alike.
\* ------------------------------------------------------------------------

Element(tag, text, tail, children) ==
    [tag |-> tag, text |-> text, tail |-> tail, children |-> children]

\* a second occurrence of a tag overwrites the first
InsertChildOverwrites(result, tag, child_dict) == Set(result, tag, child_dict)

\* lines 106-112: store child_dict under tag
InsertChild(result, tag, child_dict) ==
    IF Has(result, tag)
    THEN IF Get(result, tag).kind = "list"
         THEN Set(result, tag, List(Append(Get(result, tag).items, child_dict)))
         ELSE Set(result, tag, List(<<Get(result, tag), child_dict>>))
    ELSE Set(result, tag, child_dict)

RECURSIVE element_to_dict(_)
RECURSIVE FoldChildren(_, _, _)

\* lines 101-120: the loop over the children from the i-th on, then the
\* return of line 120.  result["_tail"].append fails with AttributeError
\* when the value under "_tail" is not a list.
FoldChildren(el, i, result) ==
    IF i > Len(el.children) THEN Dict(result)
    ELSE LET child == el.children[i]
             child_dict == element_to_dict(child)
         IN  IF child_dict.kind = "raise" THEN child_dict
             ELSE LET r1 == InsertChild(result, child.tag, child_dict)
                      tail == Strip(child.tail)
                      r2 == IF Has(r1, KeyTail) THEN r1
                            ELSE Set(r1, KeyTail, List(<<>>))
                  IN  IF tail = <<>> THEN FoldChildren(el, i + 1, r1)
                      ELSE IF Get(r2, KeyTail).kind # "list"
                           THEN Raise("AttributeError")
                           ELSE FoldChildren(el, i + 1,
                                    Set(r2, KeyTail,
                                        List(Append(Get(r2, KeyTail).items,
                                                    Str(tail)))))

\* lines 89-120
element_to_dict(el) ==
    LET text == Strip(el.text)
    IN  IF text # <<>>
        THEN IF el.children = <<>>
             THEN Str(text)
             ELSE FoldChildren(el, 1, <<[key |-> KeyText, val |-> Str(text)]>>)
        ELSE FoldChildren(el, 1, <<>>)

\* ------------------------------------------------------------------------
\* The recovering parser (lxml's XMLParser(recover=True)), on the part of XML
\* the inputs use: <name ...>, <name .../>, </name>, <?target ...?> and
\* text.  In recovery mode libxml2 keeps going after an error: an end tag
\* closes the innermost open element whatever its name, the end of input
\* closes every open element, content after the root element is dropped, and
\* "<" followed by a character that starts no markup stops the parse.  A
\* processing instruction inside the root is a child node whose tag is not
\* a string (PITag).
\* ------------------------------------------------------------------------

PITag == <<"<?">>

NameStartChars == WordChars \ {"0", "1", "2", "3", "4", "5", "6", "7", "8", "9"}

\* the token starting at position i of s, and the position after it
NextToken(s, i) ==
    IF s[i] # "<"
    THEN LET lt == FirstIndexOf(s, "<", i)
             e == IF lt = 0 THEN Len(s) + 1 ELSE lt
         IN  [k |-> "text", v |-> SubSeq(s, i, e - 1), next |-> e]
    ELSE IF i + 1 <= Len(s) /\ s[i + 1] = "/"
    THEN LET gt == FirstIndexOf(s, ">", i + 2)
         IN  IF gt = 0 THEN [k |-> "halt", v |-> <<>>, next |-> Len(s) + 1]
             ELSE [k |-> "close", v |-> SubSeq(s, i + 2, gt - 1), next |-> gt + 1]
    ELSE IF i + 1 <= Len(s) /\ s[i + 1] = "?"
    THEN LET e == NextOccurrence(s, <<"?", ">">>, i + 2)
             sp == FirstIndexOf(s, " ", i + 2)
         IN  IF e = 0 THEN [k |-> "halt", v |-> <<>>, next |-> Len(s) + 1]
             ELSE [k |-> "pi",
                   v |-> IF sp = 0 \/ sp > e THEN <<>> ELSE SubSeq(s, sp + 1, e - 1),
                   next |-> e + 2]
    ELSE IF i + 1 <= Len(s) /\ s[i + 1] \in NameStartChars
    THEN LET e == WordRunEnd(s, i + 1)
             gt == FirstIndexOf(s, ">", e)
         IN  IF gt = 0
             THEN [k |-> "open", v |-> SubSeq(s, i + 1, e - 1), next |-> Len(s) + 1]
             ELSE [k |-> IF s[gt - 1] = "/" THEN "empty" ELSE "open",
                   v |-> SubSeq(s, i + 1, e - 1), next |-> gt + 1]
    ELSE [k |-> "halt", v |-> <<>>, next |-> Len(s) + 1]

RECURSIVE Tokens(_, _)
Tokens(s, i) ==
    IF i > Len(s) THEN <<>>
    ELSE LET tk == NextToken(s, i)
         IN  <<[k |-> tk.k, v |-> tk.v]>> \o Tokens(s, tk.next)

\* el with the node c as its last child
AddChild(el, c) == [el EXCEPT !.children = Append(@, c)]

\* el with character data appended: to the tail of its last child when it
\* has one, to its own text otherwise
AddText(el, txt) ==
    IF el.children = <<>> THEN [el EXCEPT !.text = @ \o txt]
    ELSE [el EXCEPT !.children[Len(el.children)].tail = @ \o txt]

RECURSIVE CloseAll(_)
\* end of input: every open element is closed into its parent
CloseAll(stack) ==
    IF Len(stack) = 1 THEN stack[1]
    ELSE CloseAll(Append(SubSeq(stack, 1, Len(stack) - 2),
                         AddChild(stack[Len(stack) - 1], stack[Len(stack)])))

RECURSIVE Content(_, _, _)
\* the content of the open elements of stack (innermost last), from the
\* i-th token on; the result is the finished root element
Content(toks, i, stack) ==
    LET n == Len(stack)
        top == stack[n]
        below == SubSeq(stack, 1, n - 1)
    IN  IF i > Len(toks) \/ toks[i].k = "halt" THEN CloseAll(stack)
        ELSE IF toks[i].k = "text"
        THEN Content(toks, i + 1, Append(below, AddText(top, toks[i].v)))
        ELSE IF toks[i].k = "open"
        THEN Content(toks, i + 1,
                     Append(stack, Element(toks[i].v, <<>>, <<>>, <<>>)))
        ELSE IF toks[i].k = "empty"
        THEN Content(toks, i + 1,
                     Append(below,
                            AddChild(top, Element(toks[i].v, <<>>, <<>>, <<>>))))
        ELSE IF toks[i].k = "pi"
        THEN Content(toks, i + 1,
                     Append(below,
                            AddChild(top, Element(PITag, toks[i].v, <<>>, <<>>))))
        ELSE IF n = 1 THEN top
        ELSE Content(toks, i + 1,
                     Append(SubSeq(stack, 1, n - 2),
                            AddChild(stack[n - 1], top)))

\* index of the first token that is neither a processing instruction nor
\* white space (the prolog), 0 when there is none
AfterProlog(toks) ==
    LET body == {i \in 1..Len(toks) :
                    ~(toks[i].k = "pi"
                      \/ (toks[i].k = "text" /\ Strip(toks[i].v) = <<>>))}
    IN  IF body = {} THEN 0
        ELSE CHOOSE i \in body : \A j \in body : i <= j

\* the root element the recovering parser builds from text, None when the
\* document has no root element
ParseRecover(text) ==
    LET toks == Tokens(text, 1)
        i == AfterProlog(toks)
    IN  IF i = 0 \/ toks[i].k \notin {"open", "empty"} THEN None
        ELSE IF toks[i].k = "empty" THEN Element(toks[i].v, <<>>, <<>>, <<>>)
        ELSE Content(toks, i + 1, <<Element(toks[i].v, <<>>, <<>>, <<>>)>>)

\* ------------------------------------------------------------------------
\* clean_dict
\* ------------------------------------------------------------------------

\* k.startswith('_')
IsInternalKey(k) == k # <<>> /\ k[1] = "_"

RECURSIVE clean_dict(_)
clean_dict(d) ==
    IF d.kind = "dict"
    THEN LET kept == SelectSeq(d.items, LAMBDA it : ~IsInternalKey(it.key))
             result == [i \in 1..Len(kept) |->
                           [key |-> kept[i].key, val |-> clean_dict(kept[i].val)]]
         IN  IF result = <<>> /\ Has(d.items, KeyText)
             THEN Get(d.items, KeyText)
             ELSE Dict(result)
    ELSE IF d.kind = "list"
    THEN List([i \in 1..Len(d.items) |-> clean_dict(d.items[i])])
    ELSE d

\* a mapping inside v has a key that is not a string (the tag of a
\* processing-instruction node); k.startswith of line 132 fails on it
RECURSIVE HasNonStringKey(_)
HasNonStringKey(v) ==
    IF v.kind = "dict"
    THEN \E i \in 1..Len(v.items) :
            v.items[i].key = PITag \/ HasNonStringKey(v.items[i].val)
    ELSE IF v.kind = "list"
    THEN \E i \in 1..Len(v.items) : HasNonStringKey(v.items[i])
    ELSE FALSE

\* ------------------------------------------------------------------------
\* dict_to_yaml: yaml.dump(default_flow_style=False, sort_keys=False,
\* allow_unicode=True) on str, dict and list values whose strings are made
\* of word characters and blanks: block style, keys in insertion order, a
\* sequence inside a mapping not indented, a string of digits (or an empty
\* one) single-quoted, an empty collection in flow form
\* ------------------------------------------------------------------------

Digits == {"0", "1", "2", "3", "4", "5", "6", "7", "8", "9"}

Scalar(s) ==
    IF s = <<>> \/ \A i \in 1..Len(s) : s[i] \in Digits
    THEN <<"'">> \o s \o <<"'">>
    ELSE s

Indent(n) == [i \in 1..n |-> " "]

IsInline(v) == v.kind = "str" \/ v.items = <<>>

Inline(v) ==
    IF v.kind = "str" THEN Scalar(v.s)
    ELSE IF v.kind = "dict" THEN <<"{", "}">> ELSE <<"[", "]">>

RECURSIVE Lines(_, _)
RECURSIVE LinesFrom(_, _, _)

\* the lines of the items of the collection v from the i-th on
LinesFrom(v, ind, i) ==
    IF i > Len(v.items) THEN <<>>
    ELSE LET it == v.items[i]
             val == IF v.kind = "dict" THEN it.val ELSE it
             lead == IF v.kind = "dict" THEN it.key \o <<":">> ELSE <<"-">>
             here ==
                IF IsInline(val)
                THEN <<Indent(ind) \o lead \o <<" ">> \o Inline(val)>>
                ELSE IF v.kind = "dict"
                THEN <<Indent(ind) \o lead>>
                         \o Lines(val, IF val.kind = "list" THEN ind ELSE ind + 2)
                ELSE LET ls == Lines(val, ind + 2)
                     IN  <<Indent(ind) \o <<"-", " ">>
                               \o SubSeq(ls[1], ind + 3, Len(ls[1]))>>
                           \o Tail(ls)
         IN  here \o LinesFrom(v, ind, i + 1)

\* the block-style lines of a non-empty mapping or sequence at indent ind
Lines(v, ind) == LinesFrom(v, ind, 1)

RECURSIVE JoinLines(_)
JoinLines(ls) ==
    IF ls = <<>> THEN <<>> ELSE Head(ls) \o <<"\n">> \o JoinLines(Tail(ls))

\* line 126
dict_to_yaml(v) ==
    IF v.kind = "str"
    THEN IF Scalar(v.s) = v.s
         THEN v.s \o <<"\n", ".", ".", ".", "\n">>
         ELSE Scalar(v.s) \o <<"\n">>
    ELSE IF IsInline(v) THEN Inline(v) \o <<"\n">>
    ELSE JoinLines(Lines(v, 0))

\* ------------------------------------------------------------------------
\* SpecFold: element_to_dict on an element tree, then clean_dict on the
\* result.  stage[1] keeps the folded value.
\* ------------------------------------------------------------------------

\* most children of one element
MaxChildren == 3

FoldTags == {<<"a">>, <<"b">>, KeyText, KeyTail}

\* leaves: no text, text alone, text and tail (both needing a trim)
Leaves ==
    {Element(tag, tt[1], tt[2], <<>>) :
        tag \in FoldTags,
        tt \in {<<<<>>, <<>>>>, <<<<" ", "x">>, <<>>>>,
                <<<<" ", "x">>, <<"t", " ">>>>}}

SeqsUpTo(S, n) == UNION {[1..k -> S] : k \in 0..n}

\* a root over leaves
FlatTrees ==
    {Element(<<"r">>, text, <<>>, ch) :
        text \in {<<>>, <<" ">>, <<"r", " ">>},
        ch \in SeqsUpTo(Leaves, MaxChildren)}

\* a root over one inner element over leaves
NestedTrees ==
    {Element(<<"r">>, text, <<>>,
             <<Element(tag, itext, <<>>, ch)>>) :
        text \in {<<>>, <<"r">>}, tag \in FoldTags,
        itext \in {<<>>, <<"i">>}, ch \in SeqsUpTo(Leaves, 2)}

Trees == FlatTrees \cup NestedTrees

FoldInit ==
    /\ pc = "fold"
    /\ element \in Trees
    /\ stage = <<>>
    /\ xml_dict = Unset /\ ret = Unset
    /\ xml_content = Unset /\ output_file = None /\ fixed_xml = Unset
    /\ is_valid = Unset /\ yaml_output = Unset /\ file = Unset

FoldFrame ==
    UNCHANGED <<xml_content, output_file, fixed_xml, is_valid, element,
                yaml_output, file>>

\* line 122: element_to_dict(root); an exception leaves the function
Fold ==
    /\ pc = "fold"
    /\ \E r \in {element_to_dict(element)} :
          IF r.kind = "raise"
          THEN /\ ret' = r
               /\ pc' = "raised"
               /\ UNCHANGED <<stage, xml_dict>>
          ELSE /\ xml_dict' = r
               /\ stage' = <<r>>
               /\ pc' = "folded"
               /\ UNCHANGED ret
    /\ FoldFrame

\* line 170: xml_dict = clean_dict(xml_dict)
Clean ==
    /\ pc = "folded"
    /\ xml_dict' = clean_dict(xml_dict)
    /\ pc' = "cleaned"
    /\ UNCHANGED <<stage, ret>>
    /\ FoldFrame

FoldNext == Fold \/ Clean

SpecFold == FoldInit /\ [][FoldNext]_vars

\* ------------------------------------------------------------------------
\* Spec: process_xml_to_yaml, statement by statement
\* ------------------------------------------------------------------------

\* longest input of the pipeline, in pieces
MaxXmlPieces == 3

XmlDecl ==
    <<"<", "?", "x", "m", "l", " ", "v", "e", "r", "s", "i", "o", "n", "=",
      "\"", "1", ".", "0", "\"", "?", ">">>

XmlPieces ==
    {<<"<", "a", ">", "1", "<", "/", "a", ">">>,
     <<"<", "a", ">", "2", "<", "/", "a", ">">>,
     <<"<", "b", ">">>, <<"<", "/", "b", ">">>, <<"x", " ">>,
     XmlDecl, BadOpen(li), <<"<", "/", " ", "c", RSAQUO>>}

XmlInputs == Concatenations(XmlPieces, MaxXmlPieces)

RootOpen == <<"<", "r", "o", "o", "t", ">">>
RootClose == <<"<", "/", "r", "o", "o", "t", ">">>

\* line 157: not fixed_xml.strip().startswith('<?xml')
\*           and not re.match(r'^\s*<\w+', fixed_xml)
NeedsRoot(s) ==
    /\ ~StartsWith(Strip(s), <<"<", "?", "x", "m", "l">>)
    /\ ~(LET r == LStrip(s)
         IN  Len(r) >= 2 /\ r[1] = "<" /\ r[2] \in WordChars)

\* "Error during conversion: " of line 182
ErrorMarker ==
    <<"E", "r", "r", "o", "r", " ", "d", "u", "r", "i", "n", "g", " ",
      "c", "o", "n", "v", "e", "r", "s", "i", "o", "n", ":", " ">>

\* the returned tuple of lines 180 and 182
Return(first, second) == [kind |-> "return", first |-> first, second |-> second]

\* a try block that ends before the file is written
InTryBeforeSave(site) == site \in {"convert", "clean", "yaml"}

\* a try block that starts after xml_to_dict
InTryAfterConvert(site) == site \in {"clean", "yaml", "save"}

\* lines 167-180: the statements inside the try block
InTry(site) == site \in {"convert", "clean", "yaml", "save"}

\* an exception raised at site: the handler of line 181 when the site is in
\* the try block, out of the function otherwise
Throw(site, exc) ==
    /\ ret' = Raise(exc)
    /\ pc' = IF InTry(site) THEN "except" ELSE "raised"

\* what the validity check can report: a document with a root element is
\* parsed without an exception; for one without a root element the library
\* either returns a tree with no root or raises XMLSyntaxError
ValidityOutcomes(text) ==
    IF ParseRecover(text) = None THEN {Bool(TRUE), Bool(FALSE)}
    ELSE {Bool(TRUE)}

Init ==
    /\ pc = "fix"
    /\ xml_content \in XmlInputs
    /\ output_file \in {None, Str(<<"o", "u", "t">>)}
    /\ stage = <<>>
    /\ fixed_xml = Unset /\ is_valid = Unset /\ element = Unset
    /\ xml_dict = Unset /\ yaml_output = Unset /\ file = Unset /\ ret = Unset

\* line 154
FixBrokenTags ==
    /\ pc = "fix"
    /\ fixed_xml' = fix_broken_tags(xml_content)
    /\ pc' = "wrap"
    /\ UNCHANGED <<xml_content, output_file, stage, is_valid, element,
                   xml_dict, yaml_output, file, ret>>

\* lines 157-158
WrapRoot ==
    /\ pc = "wrap"
    /\ fixed_xml' = IF NeedsRoot(fixed_xml)
                    THEN RootOpen \o fixed_xml \o RootClose
                    ELSE fixed_xml
    /\ pc' = "valid"
    /\ UNCHANGED <<xml_content, output_file, stage, is_valid, element,
                   xml_dict, yaml_output, file, ret>>

\* lines 161-164 (is_valid_xml, lines 75-82): a failure is only printed
IsValidXml ==
    /\ pc = "valid"
    /\ is_valid' \in ValidityOutcomes(fixed_xml)
    /\ pc' = "convert"
    /\ UNCHANGED <<xml_content, output_file, stage, fixed_xml, element,
                   xml_dict, yaml_output, file, ret>>

\* line 168 (xml_to_dict, lines 84-122).  With no root element fromstring
\* returns None and element.text fails (AttributeError), or the library
\* raises XMLSyntaxError.
XmlToDict ==
    /\ pc = "convert"
    /\ \E root \in {ParseRecover(fixed_xml)} :
          /\ element' = root
          /\ IF root = None
             THEN /\ \E exc \in {"AttributeError", "XMLSyntaxError"} :
                        Throw("convert", exc)
                  /\ UNCHANGED <<xml_dict, stage>>
             ELSE \E r \in {element_to_dict(root)} :
                     IF r.kind = "raise"
                     THEN /\ Throw("convert", r.exc)
                          /\ UNCHANGED <<xml_dict, stage>>
                     ELSE /\ xml_dict' = r
                          /\ stage' = <<r>>
                          /\ pc' = "clean"
                          /\ UNCHANGED ret
    /\ UNCHANGED <<xml_content, output_file, fixed_xml, is_valid,
                   yaml_output, file>>

\* line 170
CleanDict ==
    /\ pc = "clean"
    /\ IF HasNonStringKey(xml_dict)
       THEN /\ Throw("clean", "AttributeError")
            /\ UNCHANGED xml_dict
       ELSE /\ xml_dict' = clean_dict(xml_dict)
            /\ pc' = "yaml"
            /\ UNCHANGED ret
    /\ UNCHANGED <<xml_content, output_file, stage, fixed_xml, is_valid,
                   element, yaml_output, file>>

\* line 172
DictToYaml ==
    /\ pc = "yaml"
    /\ yaml_output' = dict_to_yaml(xml_dict)
    /\ pc' = "save"
    /\ UNCHANGED <<xml_content, output_file, stage, fixed_xml, is_valid,
                   element, xml_dict, file, ret>>

\* lines 175-178: with an output file, open() or write() may fail (OSError)
SaveFile ==
    /\ pc = "save"
    /\ IF output_file = None
       THEN /\ pc' = "return"
            /\ UNCHANGED <<file, ret>>
       ELSE \E outcome \in {"written", "open fails", "write fails"} :
               IF outcome = "written"
               THEN /\ file' = [kind |-> "written", content |-> yaml_output]
                    /\ pc' = "return"
                    /\ UNCHANGED ret
               ELSE /\ file' = [kind |-> "failed", at |-> outcome]
                    /\ Throw("save", "OSError")
    /\ UNCHANGED <<xml_content, output_file, stage, fixed_xml, is_valid,
                   element, xml_dict, yaml_output>>

\* line 180
ReturnYaml ==
    /\ pc = "return"
    /\ ret' = Return(fixed_xml, yaml_output)
    /\ pc' = "done"
    /\ UNCHANGED <<xml_content, output_file, stage, fixed_xml, is_valid,
                   element, xml_dict, yaml_output, file>>

\* lines 181-182
ReturnError ==
    /\ pc = "except"
    /\ ret' = Return(fixed_xml, ErrorMarker \o <<ret.exc>>)
    /\ pc' = "done"
    /\ UNCHANGED <<xml_content, output_file, stage, fixed_xml, is_valid,
                   element, xml_dict, yaml_output, file>>

Next ==
    \/ FixBrokenTags
    \/ WrapRoot
    \/ IsValidXml
    \/ XmlToDict
    \/ CleanDict
    \/ DictToYaml
    \/ SaveFile
    \/ ReturnYaml
    \/ ReturnError

Spec == Init /\ [][Next]_vars

\* ------------------------------------------------------------------------
\* Claims about element_to_dict and clean_dict (checked under SpecFold)
\* ------------------------------------------------------------------------

\* positions of the children of el tagged t, in document order
ChildrenTagged(el, t) ==
    SelectSeq([i \in 1..Len(el.children) |-> i],
              LAMBDA i : el.children[i].tag = t)

\* d, the mapping folded from el, groups the children of every ordinary tag:
\* absent when there is none, the folded child when there is one, the list
\* of the folded children in document order when there are several
Grouped(el, d) ==
    \A t \in FoldTags \ {KeyText, KeyTail} :
        LET idx == ChildrenTagged(el, t)
        IN  IF idx = <<>> THEN ~Has(d.items, t)
            ELSE /\ Has(d.items, t)
                 /\ Get(d.items, t) =
                        IF Len(idx) = 1
                        THEN element_to_dict(el.children[idx[1]])
                        ELSE List([j \in 1..Len(idx) |->
                                      element_to_dict(el.children[idx[j]])])

RECURSIVE HasInternalKey(_)
\* some mapping inside v, at any depth, has a key beginning with "_"
HasInternalKey(v) ==
    IF v.kind = "dict"
    THEN \E i \in 1..Len(v.items) :
            IsInternalKey(v.items[i].key) \/ HasInternalKey(v.items[i].val)
    ELSE IF v.kind = "list"
    THEN \E i \in 1..Len(v.items) : HasInternalKey(v.items[i])
    ELSE FALSE

\* C9 as stated: the value clean_dict returns for a folded mapping has no
\* key beginning with "_" at any depth, and a mapping that held "_text" and
\* is left empty by the removal is replaced by that text string.
C9_NoInternalKeyLeft ==
    pc = "cleaned" =>
        /\ ~HasInternalKey(xml_dict)
        /\ (/\ stage[1].kind = "dict"
            /\ Has(stage[1].items, KeyText)
            /\ \A i \in 1..Len(stage[1].items) :
                  IsInternalKey(stage[1].items[i].key))
           => xml_dict = Str(Strip(element.text))

\* the trimmed tails of the children of el, in document order
TailsOf(el) ==
    LET withTail == SelectSeq(el.children, LAMBDA c : Strip(c.tail) # <<>>)
    IN  [i \in 1..Len(withTail) |-> Str(Strip(withTail[i].tail))]

\* C10 as stated: folding never fails, and in the folded mapping "_text",
\* if present, is the node's own trimmed text and "_tail", if present, is
\* the list of the children's trimmed tails in document order, whatever the
\* children's tag names are.
C10_InternalKeysOwnContent ==
    /\ pc # "raised"
    /\ (Len(stage) >= 1 /\ pc \in {"folded", "cleaned"}
        /\ stage[1].kind = "dict") =>
          /\ Has(stage[1].items, KeyText) =>
                Get(stage[1].items, KeyText) = Str(Strip(element.text))
          /\ Has(stage[1].items, KeyTail) =>
                Get(stage[1].items, KeyTail) = List(TailsOf(element))

\* ------------------------------------------------------------------------
\* Claims about process_xml_to_yaml (checked under Spec)
\* ------------------------------------------------------------------------

TwoRoots ==
    <<"<", "a", ">", "1", "<", "/", "a", ">",
      "<", "a", ">", "2", "<", "/", "a", ">">>

\* C1 as stated: the rootless input <a>1</a><a>2</a> is wrapped, so that
\* the returned repaired XML is <root><a>1</a><a>2</a></root> and the
\* folded result is the mapping {a: [1, 2]}.
C1_RootlessInputWrapped ==
    (pc = "done" /\ xml_content = TwoRoots) =>
        /\ ret.kind = "return"
        /\ ret.first = RootOpen \o TwoRoots \o RootClose
        /\ Len(stage) >= 1
        /\ stage[1] = Dict(<<[key |-> <<"a">>,
                             val |-> List(<<Str(<<"1">>), Str(<<"2">>)>>)]>>)

\* the call ended with the error string in the second slot
ErrorReturned ==
    /\ ret.kind = "return"
    /\ ret.first = fixed_xml
    /\ StartsWith(ret.second, ErrorMarker)

\* C5 as stated: a failure of the file write leaves the call as a raised
\* exception, while a failure of parsing, folding or cleaning is returned
\* as the error string.
C5_WriteFailurePropagates ==
    /\ file.kind = "failed" => pc = "raised"
    /\ (pc = "done" /\ yaml_output = Unset) => ErrorReturned

\* C5 amended: a failure of the file write is returned as the error string
\* too, like every failure of parsing, folding or cleaning; no exception
\* leaves the call.
C5_WriteFailureReturned ==
    /\ pc # "raised"
    /\ (pc = "done" /\ file.kind = "failed") => ErrorReturned
    /\ (pc = "done" /\ yaml_output = Unset) => ErrorReturned

\* a call with an output file whose write failed, after it returned
C5_Witness ==
    /\ pc = "done"
    /\ output_file # None
    /\ file.kind = "failed"
    /\ file.at = "write fails"

\* the repaired text of the input, wrapped when line 157 asks for it
RepairedText ==
    LET f == fix_broken_tags(xml_content)
    IN  IF NeedsRoot(f) THEN RootOpen \o f \o RootClose ELSE f

\* C7: when the parser builds no tree the call still returns the repaired
\* text and a string starting with the error marker, no exception leaves
\* the call, and after a failed validity check the conversion is still
\* attempted.
C7_NoTreeGivesErrorString ==
    /\ pc # "raised"
    /\ (pc = "done" /\ element = None) =>
          /\ ErrorReturned
          /\ ret.first = RepairedText
    /\ (is_valid = Bool(FALSE) /\ pc # "convert") => element # Unset

\* a document with no root element that failed the validity check, after
\* the call returned
C7_Witness ==
    /\ pc = "done"
    /\ element = None
    /\ is_valid = Bool(FALSE)
    /\ ret.kind = "return"

====
